---- MODULE Spec2Model ----
(***************************************************************************)
(* Klondike solitaire rule engine of solitare.py: cards, deal, move rules, *)
(* auto-move sweep, win check, undo stack and the key handlers of          *)
(* Game.game_loop.                                                         *)
(*                                                                         *)
(* The deck is scaled: NumRanks ranks per suit (13 in the source) and      *)
(* NumCols tableau columns (7 in the source); the undo stack keeps UndoCap *)
(* snapshots (200 in the source).  Every place where the source writes 13, *)
(* 7, 52 or 200 uses KING, NumCols, NumCards or UndoCap here.              *)
(*                                                                         *)
(* One step of the model is one iteration of the loop of game_loop seen    *)
(* from one getch() to the next: the handler of the key that was read,     *)
(* followed by check_win / save_score_if_win at the top of the next        *)
(* iteration.  The cursor is not a variable: cycle_cursor moves it freely  *)
(* without touching anything else, so the handler of Enter takes the       *)
(* cursor position (zone, idx) as its input.                               *)
(*                                                                         *)
(* settings holds draw_count and auto_move as load_settings returned them; *)
(* the settings menu is not modelled, so they stay fixed.  start_time is   *)
(* left out of the Table.  The leaderboard is represented by saves, the    *)
(* number of entries save_score_if_win has appended.  An IndexError        *)
(* raised inside a handler ends the loop: crashed becomes TRUE and no      *)
(* further key is handled.  Game.hint only fills ui.hint_targets and the   *)
(* status line; it is the operator hint on the Table (show_hints on) and   *)
(* has no action of its own.                                               *)
(*                                                                         *)
(* Spec is the game as played, over a few shuffles (new_deck).  DealSpec   *)
(* is the deal alone, over every order of the last PermWindow cards of the *)
(* deck.                                                                   *)
(***************************************************************************)
EXTENDS Integers, Sequences, FiniteSets, TLC

\* ---------------------------------------------------------------- bounds
\* ranks per suit (13 in the source) and tableau columns (7 in the source)
NumRanks == 2
NumCols == 2
\* capacity of the undo stack (200 in the source)
UndoCap == 2
\* exploration horizon on GameState.moves: with the auto-move sweep switched
\* off, and with it switched on (few states, so explored up to a won game)
MaxMoves == 5
MaxMovesAuto == 12
\* horizon on the number of leaderboard entries written
MaxSaves == 2
\* the shuffles explored (see new_deck)
MaxCut == 3
MaxMult == 1
\* the deck positions, counted from the end of the deck, that DealSpec permutes
PermWindow == 7

\* ------------------------------------------------------- program constants
NumSuits == 4

KING == NumRanks
NumCards == NumSuits * NumRanks
Suits == 0 .. (NumSuits - 1)
Cols == 0 .. (NumCols - 1)

\* -------------------------------------------------------------------- Card
Card(v, s, f) == [value |-> v, suit |-> s, face_up |-> f]

\* Python's None where a card is expected
NoCard == [value |-> 0, suit |-> 0, face_up |-> FALSE]

color_red(c) == c.suit \in {1, 2}

Last(pile) == pile[Len(pile)]

ButLast(pile) == SubSeq(pile, 1, Len(pile) - 1)

\* [Card(v, s, False) for s in range(4) for v in range(1, 14)]
SortedDeck == [i \in 1 .. NumCards |->
                 Card(((i - 1) % NumRanks) + 1, (i - 1) \div NumRanks, FALSE)]

\* random.shuffle(deck) can produce every permutation of the deck.  The model
\* explores the permutations i |-> a * i - b (mod NumCards) of the sorted
\* deck: a cut of b cards combined with a stride a coprime to NumCards.
Mults == {a \in 1 .. MaxMult : \A d \in 2 .. NumCards : ~(a % d = 0 /\ NumCards % d = 0)}

Shuffled(a, b) ==
  [i \in 1 .. NumCards |->
     SortedDeck[((a * (i - 1) + (NumCards - (b % NumCards))) % NumCards) + 1]]

new_deck == {Shuffled(a, b) : a \in Mults, b \in 0 .. MaxCut}

\* --------------------------------------------------------------- GameState
\* number of cards dealt to the columns before column col
DealtBefore(col) == (col * (col + 1)) \div 2

\* a deal that turns every dealt card face-up, not only the last of a column
deal_new_game_all_face_up(deck) ==
  [stock |-> SubSeq(deck, 1, NumCards - DealtBefore(NumCols)),
   waste |-> <<>>,
   foundations |-> [s \in Suits |-> <<>>],
   tableaus |-> [col \in Cols |->
                   [i \in 1 .. (col + 1) |->
                      LET c == deck[NumCards + 1 - (DealtBefore(col) + i)]
                      IN Card(c.value, c.suit, TRUE)]],
   moves |-> 0,
   won |-> FALSE]

\* deck.pop() takes from the end of the list: the k-th pop is deck[N + 1 - k]
deal_new_game(deck) ==
  [stock |-> SubSeq(deck, 1, NumCards - DealtBefore(NumCols)),
   waste |-> <<>>,
   foundations |-> [s \in Suits |-> <<>>],
   tableaus |-> [col \in Cols |->
                   [i \in 1 .. (col + 1) |->
                      LET c == deck[NumCards + 1 - (DealtBefore(col) + i)]
                      IN Card(c.value, c.suit, i = col + 1)]],
   moves |-> 0,
   won |-> FALSE]

\* a clone that copies the piles but leaves moves and won at the dataclass defaults
clone_default_counters(gs) ==
  [gs EXCEPT !.moves = 0, !.won = FALSE]

clone(gs) ==
  [stock |-> [i \in 1 .. Len(gs.stock) |->
                Card(gs.stock[i].value, gs.stock[i].suit, gs.stock[i].face_up)],
   waste |-> [i \in 1 .. Len(gs.waste) |->
                Card(gs.waste[i].value, gs.waste[i].suit, gs.waste[i].face_up)],
   foundations |-> [s \in Suits |-> [i \in 1 .. Len(gs.foundations[s]) |->
                Card(gs.foundations[s][i].value, gs.foundations[s][i].suit,
                     gs.foundations[s][i].face_up)]],
   tableaus |-> [col \in Cols |-> [i \in 1 .. Len(gs.tableaus[col]) |->
                Card(gs.tableaus[col][i].value, gs.tableaus[col][i].suit,
                     gs.tableaus[col][i].face_up)]],
   moves |-> gs.moves,
   won |-> gs.won]

\* -------------------------------------------------------------- predicates
\* the tableau test without the opposite-colour condition
can_place_on_tableau_any_color(moving, target) ==
  IF target = NoCard
  THEN moving.value = KING
  ELSE moving.value = target.value - 1

can_place_on_tableau(moving, target) ==
  IF target = NoCard
  THEN moving.value = KING
  ELSE IF color_red(moving) = color_red(target)
       THEN FALSE
       ELSE moving.value = target.value - 1

\* the foundation test without the same-suit condition
can_place_on_foundation_any_suit(moving, foundation_top) ==
  IF foundation_top = NoCard
  THEN moving.value = 1
  ELSE moving.value = foundation_top.value + 1

can_place_on_foundation(moving, foundation_top) ==
  IF foundation_top = NoCard
  THEN moving.value = 1
  ELSE moving.suit = foundation_top.suit /\ moving.value = foundation_top.value + 1

\* a flip that never turns the exposed card over
flip_if_needed_never(pile) == pile

flip_if_needed(pile) ==
  IF pile # <<>> /\ ~Last(pile).face_up
  THEN [pile EXCEPT ![Len(pile)].face_up = TRUE]
  ELSE pile

\* gs.foundations[s][-1] if gs.foundations[s] else None
FoundationTop(gs, s) ==
  IF gs.foundations[s] # <<>> THEN Last(gs.foundations[s]) ELSE NoCard

\* gs.tableaus[col][-1] if gs.tableaus[col] and gs.tableaus[col][-1].face_up else None
TableauTarget(gs, col) ==
  IF gs.tableaus[col] # <<>> /\ Last(gs.tableaus[col]).face_up
  THEN Last(gs.tableaus[col])
  ELSE NoCard

\* ------------------------------------------------------------ move helpers
\* every helper yields [ok |-> what the function returns, gs |-> gs afterwards]
Fail(gs) == [ok |-> FALSE, gs |-> gs]

Done(gs) == [ok |-> TRUE, gs |-> gs]

\* the foundation piles that pass the test inside the loop over range(4)
WasteFoundationFits(gs) ==
  {s \in Suits :
     /\ can_place_on_foundation(Last(gs.waste), FoundationTop(gs, s))
     /\ (FoundationTop(gs, s) = NoCard \/ FoundationTop(gs, s).suit = Last(gs.waste).suit)}

move_waste_to_foundation(gs) ==
  IF gs.waste = <<>>
  THEN Fail(gs)
  ELSE IF WasteFoundationFits(gs) = {}
       THEN Fail(gs)
       ELSE LET s == CHOOSE x \in WasteFoundationFits(gs) :
                       \A y \in WasteFoundationFits(gs) : x <= y
            IN Done([gs EXCEPT !.foundations[s] = Append(@, Last(gs.waste)),
                               !.waste = ButLast(@),
                               !.moves = @ + 1])

\* waste -> tableau that appends the waste top without popping it
move_waste_to_tableau_no_pop(gs, col) ==
  IF gs.waste = <<>>
  THEN Fail(gs)
  ELSE IF can_place_on_tableau(Last(gs.waste), TableauTarget(gs, col))
       THEN Done([gs EXCEPT !.tableaus[col] = Append(@, Last(gs.waste)),
                            !.moves = @ + 1])
       ELSE Fail(gs)

move_waste_to_tableau(gs, col) ==
  IF gs.waste = <<>>
  THEN Fail(gs)
  ELSE IF can_place_on_tableau(Last(gs.waste), TableauTarget(gs, col))
       THEN Done([gs EXCEPT !.tableaus[col] = Append(@, Last(gs.waste)),
                            !.waste = ButLast(@),
                            !.moves = @ + 1])
       ELSE Fail(gs)

\* a tableau -> foundation move that does not count itself in gs.moves
move_tableau_to_foundation_uncounted(gs, col) ==
  IF gs.tableaus[col] = <<>>
  THEN Fail(gs)
  ELSE LET card == Last(gs.tableaus[col])
           s == card.suit
       IN IF ~card.face_up
          THEN Fail(gs)
          ELSE IF can_place_on_foundation(card, FoundationTop(gs, s))
               THEN Done([gs EXCEPT !.foundations[s] = Append(@, card),
                                    !.tableaus[col] = flip_if_needed(ButLast(@))])
               ELSE Fail(gs)

move_tableau_to_foundation(gs, col) ==
  IF gs.tableaus[col] = <<>>
  THEN Fail(gs)
  ELSE LET card == Last(gs.tableaus[col])
           s == card.suit
       IN IF ~card.face_up
          THEN Fail(gs)
          ELSE IF can_place_on_foundation(card, FoundationTop(gs, s))
               THEN Done([gs EXCEPT !.foundations[s] = Append(@, card),
                                    !.tableaus[col] = flip_if_needed(ButLast(@)),
                                    !.moves = @ + 1])
               ELSE Fail(gs)

\* index (1-based) of the first card of the face-up run at the tail of pile;
\* Len(pile) + 1 when the top card is face-down
RECURSIVE FirstFaceUpFrom(_, _)
FirstFaceUpFrom(pile, idx) ==
  IF idx >= 1 /\ pile[idx].face_up
  THEN FirstFaceUpFrom(pile, idx - 1)
  ELSE idx + 1

first_faceup(pile) == FirstFaceUpFrom(pile, Len(pile))

move_tableau_to_tableau(gs, src, dst, depth) ==
  IF src = dst
  THEN Fail(gs)
  ELSE IF gs.tableaus[src] = <<>>
  THEN Fail(gs)
  ELSE LET pile == gs.tableaus[src]
           ff == first_faceup(pile)
       IN IF ff > Len(pile)
          THEN Fail(gs)
          ELSE LET run == SubSeq(pile, ff, Len(pile))
               IN IF depth < 1 \/ depth > Len(run)
                  THEN Fail(gs)
                  ELSE LET moving_stack == SubSeq(run, 1, depth)
                       IN IF ~can_place_on_tableau(moving_stack[1], TableauTarget(gs, dst))
                          THEN Fail(gs)
                          ELSE Done([gs EXCEPT
                                 !.tableaus[dst] = @ \o moving_stack,
                                 !.tableaus[src] = flip_if_needed(
                                     SubSeq(pile, 1, ff - 1)
                                       \o SubSeq(pile, ff + depth, Len(pile))),
                                 !.moves = @ + 1])

Min(a, b) == IF a <= b THEN a ELSE b

Max(a, b) == IF a >= b THEN a ELSE b

\* the k cards popped from the end of stock, in the order they are appended
DrawnCards(stock, k) ==
  [i \in 1 .. k |-> Card(stock[Len(stock) + 1 - i].value,
                         stock[Len(stock) + 1 - i].suit, TRUE)]

\* a recycle that leaves the cards face-up on the stock
Recycled_face_up(waste) ==
  [i \in 1 .. Len(waste) |-> Card(waste[Len(waste) + 1 - i].value,
                                  waste[Len(waste) + 1 - i].suit, TRUE)]

\* the waste popped card by card onto the stock, face down
Recycled(waste) ==
  [i \in 1 .. Len(waste) |-> Card(waste[Len(waste) + 1 - i].value,
                                  waste[Len(waste) + 1 - i].suit, FALSE)]

\* a draw that counts the action before it knows whether anything can move
draw_from_stock_counts_first(gs, draw_count) ==
  IF gs.stock # <<>>
  THEN LET k == Min(draw_count, Len(gs.stock))
       IN Done([gs EXCEPT !.waste = @ \o DrawnCards(gs.stock, k),
                          !.stock = SubSeq(@, 1, Len(@) - k),
                          !.moves = @ + 1])
  ELSE IF gs.waste # <<>>
       THEN Done([gs EXCEPT !.stock = @ \o Recycled(gs.waste),
                            !.waste = <<>>,
                            !.moves = @ + 1])
       ELSE Fail([gs EXCEPT !.moves = @ + 1])

\* a draw that puts the drawn cards on the waste in the order they had on
\* the stock (waste.extend(stock[-k:]))
draw_from_stock_keeps_pile_order(gs, draw_count) ==
  IF gs.stock # <<>>
  THEN LET k == Min(draw_count, Len(gs.stock))
       IN Done([gs EXCEPT !.waste = @ \o [i \in 1 .. k |->
                                            Card(gs.stock[Len(gs.stock) - k + i].value,
                                                 gs.stock[Len(gs.stock) - k + i].suit, TRUE)],
                          !.stock = SubSeq(@, 1, Len(@) - k),
                          !.moves = @ + 1])
  ELSE IF gs.waste # <<>>
       THEN Done([gs EXCEPT !.stock = @ \o Recycled(gs.waste),
                            !.waste = <<>>,
                            !.moves = @ + 1])
       ELSE Fail(gs)

\* a draw that leaves the drawn cards face-down on the waste
draw_from_stock_face_down(gs, draw_count) ==
  IF gs.stock # <<>>
  THEN LET k == Min(draw_count, Len(gs.stock))
       IN Done([gs EXCEPT !.waste = @ \o [i \in 1 .. k |-> gs.stock[Len(gs.stock) + 1 - i]],
                          !.stock = SubSeq(@, 1, Len(@) - k),
                          !.moves = @ + 1])
  ELSE IF gs.waste # <<>>
       THEN Done([gs EXCEPT !.stock = @ \o Recycled(gs.waste),
                            !.waste = <<>>,
                            !.moves = @ + 1])
       ELSE Fail(gs)

draw_from_stock(gs, draw_count) ==
  IF gs.stock # <<>>
  THEN LET k == Min(draw_count, Len(gs.stock))
       IN Done([gs EXCEPT !.waste = @ \o DrawnCards(gs.stock, k),
                          !.stock = SubSeq(@, 1, Len(@) - k),
                          !.moves = @ + 1])
  ELSE IF gs.waste # <<>>
       THEN Done([gs EXCEPT !.stock = @ \o Recycled(gs.waste),
                            !.waste = <<>>,
                            !.moves = @ + 1])
       ELSE Fail(gs)

RECURSIVE SumLen(_, _)
SumLen(f, S) ==
  IF S = {} THEN 0
  ELSE LET x == CHOOSE y \in S : TRUE IN Len(f[x]) + SumLen(f, S \ {x})

FoundationTotal(gs) == SumLen(gs.foundations, Suits)

check_win(gs) ==
  IF FoundationTotal(gs) = NumCards
  THEN Done([gs EXCEPT !.won = TRUE])
  ELSE Fail(gs)

\* the loop over the columns inside one pass of auto_move_safe;
\* acc = [gs, moved, count]
RECURSIVE AutoCols(_, _)
AutoCols(acc, col) ==
  IF col >= NumCols
  THEN acc
  ELSE LET r == move_tableau_to_foundation(acc.gs, col)
       IN AutoCols([gs |-> r.gs,
                    moved |-> acc.moved \/ r.ok,
                    count |-> IF r.ok THEN acc.count + 1 ELSE acc.count],
                   col + 1)

AutoPass(gs, count) ==
  LET w == move_waste_to_foundation(gs)
  IN AutoCols([gs |-> w.gs, moved |-> w.ok,
               count |-> IF w.ok THEN count + 1 ELSE count], 0)

\* a sweep that makes one pass and stops, whether or not a card moved
AutoLoop_single_pass(gs, count) ==
  [gs |-> AutoPass(gs, count).gs, count |-> AutoPass(gs, count).count]

RECURSIVE AutoLoop(_, _)
AutoLoop(gs, count) ==
  LET p == AutoPass(gs, count)
  IN IF p.moved THEN AutoLoop(p.gs, p.count) ELSE [gs |-> p.gs, count |-> p.count]

auto_move_safe(gs) == AutoLoop(gs, 0)

\* -------------------------------------------------------------------- Game
VARIABLES state, undo_stack, sel, settings, saves, crashed

vars == <<state, undo_stack, sel, settings, saves, crashed>>

\* self._sel: None, ("waste", 0), ("foundation", idx) or ("tableau", col, depth)
NoSel == [zone |-> "none", idx |-> 0, depth |-> 0]

Sel(zone, idx, depth) == [zone |-> zone, idx |-> idx, depth |-> depth]

\* the positions of ui.cursor (the list `order` of cycle_cursor)
CursorPositions ==
  {<<"stock", 0>>, <<"waste", 0>>}
    \cup {<<"foundation", s>> : s \in Suits}
    \cup {<<"tableau", col>> : col \in Cols}

\* The methods of Game are operators on a record g of the fields they use:
\* g.state, g.undo_stack, g.sel, g.saves (entries handed to save_leaderboard)
\* and g.crashed (an IndexError left the main loop).
\* a push that, on overflow, drops the newest entry (pop() for pop(0))
push_undo_drops_newest(g) ==
  LET pushed == Append(g.undo_stack, clone(g.state))
  IN [g EXCEPT !.undo_stack = IF Len(pushed) > UndoCap THEN ButLast(pushed) ELSE pushed]

push_undo(g) ==
  LET pushed == Append(g.undo_stack, clone(g.state))
  IN [g EXCEPT !.undo_stack = IF Len(pushed) > UndoCap THEN Tail(pushed) ELSE pushed]

undo(g) ==
  IF g.undo_stack # <<>>
  THEN [g EXCEPT !.state = Last(g.undo_stack), !.undo_stack = ButLast(g.undo_stack)]
  ELSE g

save_score_if_win(g) ==
  IF g.state.won THEN [g EXCEPT !.saves = @ + 1] ELSE g

\* any(c.face_up for c in pile[-len(pile):])
AnyFaceUp(pile) == \E i \in 1 .. Len(pile) : pile[i].face_up

\* the branch `if self._sel is None` of select_or_move
SelectOrigin(g, zone, idx, draw_count) ==
  CASE zone = "stock" ->
         LET p == push_undo(g)
         IN [p EXCEPT !.state = draw_from_stock(p.state, draw_count).gs]
    [] zone = "waste" ->
         IF g.state.waste # <<>> THEN [g EXCEPT !.sel = Sel("waste", 0, 0)] ELSE g
    [] zone = "foundation" ->
         IF g.state.foundations[idx] # <<>>
         THEN [g EXCEPT !.sel = Sel("foundation", idx, 0)] ELSE g
    [] zone = "tableau" ->
         IF AnyFaceUp(g.state.tableaus[idx])
         THEN [g EXCEPT !.sel = Sel("tableau", idx, 1)] ELSE g

\* the move attempted by the branch `else` of select_or_move, on the state
\* after push_undo: [ok |-> moved, gs |-> self.state]
PlaceAttempt(gs, src, zone, idx) ==
  CASE src.zone = "waste" /\ zone = "foundation" -> move_waste_to_foundation(gs)
    [] src.zone = "waste" /\ zone = "tableau" -> move_waste_to_tableau(gs, idx)
    [] src.zone = "foundation" /\ zone = "tableau" ->
         IF can_place_on_tableau(Last(gs.foundations[src.idx]), TableauTarget(gs, idx))
         THEN Done([gs EXCEPT !.tableaus[idx] = Append(@, Last(gs.foundations[src.idx])),
                              !.foundations[src.idx] = ButLast(@),
                              !.moves = @ + 1])
         ELSE Fail(gs)
    [] src.zone = "tableau" /\ zone = "foundation" ->
         move_tableau_to_foundation(gs, src.idx)
    [] src.zone = "tableau" /\ zone = "tableau" ->
         move_tableau_to_tableau(gs, src.idx, idx, src.depth)
    [] OTHER -> Fail(gs)

\* self.state.foundations[src[1]][-1] on an empty pile raises IndexError
PlaceRaises(gs, src, zone) ==
  src.zone = "foundation" /\ zone = "tableau" /\ gs.foundations[src.idx] = <<>>

PlaceToDestination(g, zone, idx) ==
  LET p == push_undo(g)
  IN IF PlaceRaises(p.state, g.sel, zone)
     THEN [p EXCEPT !.crashed = TRUE]
     ELSE LET r == PlaceAttempt(p.state, g.sel, zone, idx)
              q == [p EXCEPT !.state = r.gs]
          IN IF ~r.ok
             THEN [undo(q) EXCEPT !.sel = NoSel]
             ELSE [q EXCEPT !.sel = NoSel]

select_or_move(g, zone, idx, draw_count) ==
  IF g.sel = NoSel
  THEN SelectOrigin(g, zone, idx, draw_count)
  ELSE PlaceToDestination(g, zone, idx)

\* length of the face-up run at the tail of pile
RunLength(pile) == Len(pile) - (first_faceup(pile) - 1)

adjust_depth(g, delta) ==
  IF g.sel # NoSel /\ g.sel.zone = "tableau"
  THEN LET maxd == RunLength(g.state.tableaus[g.sel.idx])
       IN [g EXCEPT !.sel.depth = Max(1, Min(maxd, g.sel.depth + delta))]
  ELSE g

\* The tips Game.hint collects into ui.hint_targets, in the order of the
\* list: for the waste top the foundation tip and the tableau tips, then the
\* foundation tips of the columns.  Each tip is <<zone, index>>.
HintWasteFoundation(gs) ==
  IF gs.waste # <<>>
       /\ can_place_on_foundation(Last(gs.waste), FoundationTop(gs, Last(gs.waste).suit))
  THEN << <<"foundation", Last(gs.waste).suit>> >>
  ELSE <<>>

RECURSIVE HintWasteTableau(_, _)
HintWasteTableau(gs, col) ==
  IF col >= NumCols \/ gs.waste = <<>>
  THEN <<>>
  ELSE (IF can_place_on_tableau(Last(gs.waste), TableauTarget(gs, col))
        THEN << <<"tableau", col>> >> ELSE <<>>)
         \o HintWasteTableau(gs, col + 1)

HintTableauFoundation(gs, col) ==
  IF gs.tableaus[col] # <<>> /\ Last(gs.tableaus[col]).face_up
       /\ can_place_on_foundation(Last(gs.tableaus[col]),
                                  FoundationTop(gs, Last(gs.tableaus[col]).suit))
  THEN << <<"foundation", Last(gs.tableaus[col]).suit>> >>
  ELSE <<>>

RECURSIVE HintColumns(_, _)
HintColumns(gs, col) ==
  IF col >= NumCols
  THEN <<>>
  ELSE HintTableauFoundation(gs, col) \o HintColumns(gs, col + 1)

\* ui.hint_targets after Game.hint with show_hints on (the default); the
\* Table is not touched
hint(gs) ==
  HintWasteFoundation(gs) \o HintWasteTableau(gs, 0) \o HintColumns(gs, 0)

\* `if self.settings.get('auto_move', True): auto_move_safe(self.state)`
AutoIfEnabled(g, cfg) ==
  IF cfg.auto_move THEN [g EXCEPT !.state = auto_move_safe(g.state).gs] ELSE g

\* top of the next loop iteration: check_win, then save_score_if_win
LoopTop(g) ==
  LET r == check_win(g.state)
      h == [g EXCEPT !.state = r.gs]
  IN IF g.crashed THEN g
     ELSE IF r.ok THEN save_score_if_win(h) ELSE h

\* the branches of game_loop, one per key
OnEnter(g, cfg, zone, idx) ==
  LET h == select_or_move(g, zone, idx, cfg.draw_count)
  IN IF h.crashed THEN h ELSE LoopTop(AutoIfEnabled(h, cfg))

OnD(g, cfg) ==
  LET p == push_undo(g)
      h == [p EXCEPT !.state = draw_from_stock(p.state, cfg.draw_count).gs]
  IN LoopTop(AutoIfEnabled(h, cfg))

OnU(g) == LoopTop(undo(g))

OnA(g) ==
  LET p == push_undo(g)
  IN LoopTop([p EXCEPT !.state = auto_move_safe(p.state).gs])

OnUpDown(g, delta) == LoopTop(adjust_depth(g, delta))

\* a new game that deals afresh but keeps the undo stack of the old game
OnN_keeps_history(g, deck) ==
  LoopTop([g EXCEPT !.state = deal_new_game(deck), !.sel = NoSel])

OnN(g, deck) ==
  LoopTop([g EXCEPT !.state = deal_new_game(deck), !.undo_stack = <<>>, !.sel = NoSel])

\* the Game object as a record
G == [state |-> state, undo_stack |-> undo_stack, sel |-> sel,
      saves |-> saves, crashed |-> crashed]

MoveCap == IF settings.auto_move THEN MaxMovesAuto ELSE MaxMoves

\* the loop runs while no exception was raised; the counters are capped
Becomes(h) ==
  /\ ~crashed
  /\ h.state.moves <= MoveCap
  /\ h.saves <= MaxSaves
  /\ state' = h.state
  /\ undo_stack' = h.undo_stack
  /\ sel' = h.sel
  /\ saves' = h.saves
  /\ crashed' = h.crashed
  /\ UNCHANGED settings

Init ==
  /\ \E deck \in new_deck : state = deal_new_game(deck)
  /\ undo_stack = <<>>
  /\ sel = NoSel
  /\ settings \in [draw_count : {1, 3}, auto_move : BOOLEAN]
  /\ saves = 0
  /\ crashed = FALSE

KeyEnter == \E pos \in CursorPositions : Becomes(OnEnter(G, settings, pos[1], pos[2]))

KeyD == Becomes(OnD(G, settings))

KeyU == Becomes(OnU(G))

KeyA == Becomes(OnA(G))

KeyUp == Becomes(OnUpDown(G, 1))

KeyDown == Becomes(OnUpDown(G, -1))

KeyN == \E deck \in new_deck : Becomes(OnN(G, deck))

Next == KeyEnter \/ KeyD \/ KeyU \/ KeyA \/ KeyUp \/ KeyDown \/ KeyN

Spec == Init /\ [][Next]_vars

\* ------------------------------------------------------------ the shuffle
\* DealSpec explores deal_new_game over the orders random.shuffle can give
\* the deck: it starts from the deal of the sorted deck and each step is a
\* new game whose deck is the deck of the current deal with two of its last
\* PermWindow cards exchanged, so every order of those cards is reached.
\* the deck that deal_new_game turned into the freshly dealt Table gs
DeckOf(gs) ==
  [p \in 1 .. NumCards |->
     IF p <= Len(gs.stock)
     THEN Card(gs.stock[p].value, gs.stock[p].suit, FALSE)
     ELSE LET k == NumCards + 1 - p
              col == CHOOSE c \in Cols : DealtBefore(c) < k /\ k <= DealtBefore(c + 1)
              c == gs.tableaus[col][k - DealtBefore(col)]
          IN Card(c.value, c.suit, FALSE)]

Swap(deck, i, j) == [deck EXCEPT ![i] = deck[j], ![j] = deck[i]]

WindowPositions == (NumCards - Min(PermWindow, NumCards) + 1) .. NumCards

DealInit ==
  /\ state = deal_new_game(SortedDeck)
  /\ undo_stack = <<>>
  /\ sel = NoSel
  /\ settings = [draw_count |-> 3, auto_move |-> TRUE]
  /\ saves = 0
  /\ crashed = FALSE

DealShuffled ==
  \E i \in WindowPositions : \E j \in WindowPositions :
    i < j /\ Becomes(OnN(G, Swap(DeckOf(state), i, j)))

DealNext == DealShuffled

DealSpec == DealInit /\ [][DealNext]_vars

\* ------------------------------------------------------------- properties
\* all cards of a Table, pile after pile
RECURSIVE Concat(_, _, _)
Concat(f, lo, hi) == IF lo > hi THEN <<>> ELSE f[lo] \o Concat(f, lo + 1, hi)

AllCards(gs) ==
  gs.stock \o gs.waste \o Concat(gs.foundations, 0, NumSuits - 1)
    \o Concat(gs.tableaus, 0, NumCols - 1)

Occurrences(cards, v, s) ==
  Cardinality({i \in 1 .. Len(cards) : cards[i].value = v /\ cards[i].suit = s})

\* the intents whose outcome the properties below look at, applied to the
\* current Game
Positions == CursorPositions

AfterEnter(pos) == OnEnter(G, settings, pos[1], pos[2])

AfterD == OnD(G, settings)

AfterA == OnA(G)

DrawSucceeds == draw_from_stock(state, settings.draw_count).ok

PlacementSucceeds(pos) ==
  /\ sel # NoSel
  /\ ~PlaceRaises(state, sel, pos[1])
  /\ PlaceAttempt(state, sel, pos[1], pos[2]).ok

PlacementFails(pos) ==
  /\ sel # NoSel
  /\ ~PlaceRaises(state, sel, pos[1])
  /\ ~PlaceAttempt(state, sel, pos[1], pos[2]).ok

AutoMoveSucceeds == auto_move_safe(state).count > 0

\* C1: card conservation - in every reachable state stock, waste, the
\* foundations and the tableau columns together hold exactly NumCards cards,
\* each (rank, suit) pair exactly once.
C1_CardConservation ==
  /\ Len(AllCards(state)) = NumCards
  /\ \A v \in 1 .. NumRanks : \A s \in Suits : Occurrences(AllCards(state), v, s) = 1

\* cards have been drawn, built on a foundation and moved between columns,
\* and a snapshot is on the undo stack
C1_Witness ==
  /\ state.waste # <<>>
  /\ FoundationTotal(state) > 0
  /\ \E col \in Cols : Len(state.tableaus[col]) > col + 1
  /\ undo_stack # <<>>

\* C2: undo is a left inverse of a single move - after every successful
\* Draw, placement or explicit AutoMove (with the sweep that follows it), an
\* immediately following Undo gives back the Table as it was before the
\* move: every pile, every face-up flag, won and moves.
C2_UndoLeftInverse ==
  ~crashed =>
    /\ DrawSucceeds => OnU(AfterD).state = state
    /\ (DrawSucceeds /\ sel = NoSel) => OnU(AfterEnter(<<"stock", 0>>)).state = state
    /\ \A pos \in Positions : PlacementSucceeds(pos) => OnU(AfterEnter(pos)).state = state
    /\ AutoMoveSucceeds => OnU(AfterA).state = state

\* a Draw followed by a sweep that moved at least one more card, from a Table
\* that already counts moves and is undone to that very Table; and a
\* successful placement
C2_Witness ==
  /\ ~crashed
  /\ state.moves > 0
  /\ DrawSucceeds
  /\ AfterD.state.moves >= state.moves + 2
  /\ OnU(AfterD).state = state
  /\ \E pos \in Positions : PlacementSucceeds(pos) /\ AfterEnter(pos).state # state

\* the Table changed only with the Table before on top of the undo stack
Snapshotted(h) ==
  h.state # state => (h.undo_stack # <<>> /\ Last(h.undo_stack) = state)

\* C3: a snapshot is pushed before every mutation - for every intent other
\* than Undo and NewGame, if the Table after the intent differs from the
\* Table before it, the top of the undo stack after the intent is the Table
\* as it was before the intent.
C3_SnapshotBeforeMutation ==
  ~crashed =>
    /\ \A pos \in Positions : Snapshotted(AfterEnter(pos))
    /\ Snapshotted(AfterD)
    /\ Snapshotted(AfterA)
    /\ Snapshotted(OnUpDown(G, 1))
    /\ Snapshotted(OnUpDown(G, -1))

\* C4: a failed move attempt leaves the undo stack exactly as it was - an
\* illegal placement, a Draw with stock and waste both empty, an explicit
\* AutoMove that moves nothing; also when the stack is full.
C4_FailedAttemptKeepsHistory ==
  ~crashed =>
    /\ \A pos \in Positions : PlacementFails(pos) => AfterEnter(pos).undo_stack = undo_stack
    /\ ~DrawSucceeds => AfterD.undo_stack = undo_stack
    /\ ~AutoMoveSucceeds => AfterA.undo_stack = undo_stack

\* the depths tried: below 1, every run length, and beyond
Depths == -1 .. (NumRanks + 2)

Unchanged(r) == ~r.ok => r.gs = state

\* C5: a move operation that returns failure leaves the Table unchanged -
\* draw_from_stock, move_waste_to_foundation, move_waste_to_tableau,
\* move_tableau_to_foundation and move_tableau_to_tableau, for every column
\* and every depth.
C5_FailureLeavesTable ==
  /\ \A dc \in {1, 3} : Unchanged(draw_from_stock(state, dc))
  /\ Unchanged(move_waste_to_foundation(state))
  /\ \A col \in Cols : Unchanged(move_waste_to_tableau(state, col))
  /\ \A col \in Cols : Unchanged(move_tableau_to_foundation(state, col))
  /\ \A src \in Cols : \A dst \in Cols : \A depth \in Depths :
       Unchanged(move_tableau_to_tableau(state, src, dst, depth))

\* a Table on which each of the five operations has a failing call, the
\* tableau move failing once for its depth and once for its destination
C5_Witness ==
  /\ ~draw_from_stock(state, 1).ok
  /\ state.waste = <<>> /\ ~move_waste_to_foundation(state).ok
  /\ \E col \in Cols : ~move_waste_to_tableau(state, col).ok
  /\ \E col \in Cols : state.tableaus[col] # <<>> /\ ~move_tableau_to_foundation(state, col).ok
  /\ \E src \in Cols : \E dst \in Cols :
       /\ src # dst
       /\ RunLength(state.tableaus[src]) >= 1
       /\ ~move_tableau_to_tableau(state, src, dst, RunLength(state.tableaus[src]) + 1).ok
       /\ ~move_tableau_to_tableau(state, src, dst, 1).ok

\* C6: the sweep runs only after a successful move - an Enter that merely
\* selects a source, or whose placement is illegal, leaves the Table as it
\* was, also when auto_move is on.
C6_SweepOnlyAfterSuccess ==
  ~crashed =>
    \A pos \in Positions :
      /\ (sel = NoSel /\ AfterEnter(pos).sel # NoSel) => AfterEnter(pos).state = state
      /\ PlacementFails(pos) => AfterEnter(pos).state = state

C9_FoundationBuild ==
  \A s \in Suits :
    LET pile == state.foundations[s]
    IN /\ Len(pile) <= NumRanks
       /\ \A i \in 1 .. Len(pile) : pile[i].value = i /\ pile[i].suit = pile[1].suit

\* a complete pile of NumRanks cards, another pile begun, and a pile that
\* was built by a move from a tableau column (it sits on the pile of its suit)
\* next to one that was not
C9_Witness ==
  /\ \E s \in Suits : Len(state.foundations[s]) = NumRanks
  /\ \E s \in Suits : Len(state.foundations[s]) \in 1 .. (NumRanks - 1)
  /\ \E s \in Suits : state.foundations[s] # <<>> /\ state.foundations[s][1].suit # s

\* C10: foundations are per suit - the pile at index s holds only cards of
\* suit s, whichever operation put them there.
C10_FoundationIndexIsSuit ==
  \A s \in Suits : \A i \in 1 .. Len(state.foundations[s]) :
    state.foundations[s][i].suit = s

\* the face-up cards of a column that lie on a face-up card alternate in
\* colour and descend by one rank
TableauBuilt(pile) ==
  \A i \in 2 .. Len(pile) :
    (pile[i].face_up /\ pile[i - 1].face_up) =>
      /\ color_red(pile[i]) # color_red(pile[i - 1])
      /\ pile[i].value = pile[i - 1].value - 1

AllBuilt(gs) == \A col \in Cols : TableauBuilt(gs.tableaus[col])

\* C11: tableau build invariant - in every reachable state every face-up
\* card that lies directly on a face-up card has the opposite colour and a
\* rank one lower; waste->tableau, tableau->tableau with every depth and
\* foundation->tableau, applied to a reachable Table, keep it so.
C11_TableauBuild ==
  /\ AllBuilt(state)
  /\ \A col \in Cols : AllBuilt(move_waste_to_tableau(state, col).gs)
  /\ \A src \in Cols : \A dst \in Cols : \A depth \in Depths :
       AllBuilt(move_tableau_to_tableau(state, src, dst, depth).gs)
  /\ \A s \in Suits : \A col \in Cols :
       state.foundations[s] # <<>> =>
         AllBuilt(PlaceAttempt(state, Sel("foundation", s, 0), "tableau", col).gs)

\* a column holds a face-up run of two cards, part of it can be moved to the
\* other column, and a foundation card can go back onto a column
C11_Witness ==
  /\ \E src \in Cols : \E dst \in Cols : \E depth \in 1 .. NumRanks :
       /\ RunLength(state.tableaus[src]) >= 2
       /\ move_tableau_to_tableau(state, src, dst, depth).ok
  /\ \E s \in Suits : \E col \in Cols :
       /\ state.foundations[s] # <<>>
       /\ PlaceAttempt(state, Sel("foundation", s, 0), "tableau", col).ok

\* C12: tableau->tableau(src, dst, depth) with 1 <= depth <= run length moves
\* the top depth cards of src - on success dst is its old contents followed
\* by the last depth cards of old src in their order, src is its old contents
\* without its last depth cards and with a face-down new top flipped, and the
\* card that passed the legality test is the bottom card of the moved cards.
C12_MovesTopCards ==
  \A src \in Cols : \A dst \in Cols :
    \A depth \in 1 .. RunLength(state.tableaus[src]) :
      LET pile == state.tableaus[src]
          n == Len(pile)
          r == move_tableau_to_tableau(state, src, dst, depth)
      IN r.ok =>
           /\ r.gs.tableaus[dst] = state.tableaus[dst] \o SubSeq(pile, n - depth + 1, n)
           /\ r.gs.tableaus[src] = flip_if_needed(SubSeq(pile, 1, n - depth))
           /\ can_place_on_tableau(pile[n - depth + 1], TableauTarget(state, dst))

\* card is the next card of its suit for the foundations of gs: an ace whose
\* suit is on no foundation yet, or the card one rank above the top card of
\* the pile that holds its suit
NextOfSuit(gs, card) ==
  IF card.value = 1
  THEN \A s \in Suits : \A i \in 1 .. Len(gs.foundations[s]) :
         gs.foundations[s][i].suit # card.suit
  ELSE \E s \in Suits :
         /\ gs.foundations[s] # <<>>
         /\ Last(gs.foundations[s]).suit = card.suit
         /\ Last(gs.foundations[s]).value = card.value - 1

\* C13: tableau->foundation(col) succeeds exactly when the top card of col is
\* face-up and is the next card of its suit on the foundations, however the
\* foundations were filled; on success the card is on top of a foundation pile
\* and col is its old contents without it, a face-down new top flipped.
C13_TableauToFoundation ==
  \A col \in Cols :
    LET pile == state.tableaus[col]
        r == move_tableau_to_foundation(state, col)
    IN /\ r.ok = (pile # <<>> /\ Last(pile).face_up /\ NextOfSuit(state, Last(pile)))
       /\ r.ok =>
            /\ \E s \in Suits : r.gs.foundations[s] = Append(state.foundations[s], Last(pile))
            /\ r.gs.tableaus[col] = flip_if_needed(ButLast(pile))

\* card passes the foundation test against the top card (or the emptiness)
\* of some foundation pile of gs
FoundationEligible(gs, card) ==
  \E s \in Suits : can_place_on_foundation(card, FoundationTop(gs, s))

\* C14: after auto_move_safe returns no exposed card is foundation-eligible -
\* neither the waste top nor a face-up tableau top passes the foundation test
\* against the top card or the emptiness of any of the foundation piles.
C14_SweepLeavesNothingEligible ==
  LET swept == auto_move_safe(state).gs
  IN /\ swept.waste # <<>> => ~FoundationEligible(swept, Last(swept.waste))
     /\ \A col \in Cols :
          (swept.tableaus[col] # <<>> /\ Last(swept.tableaus[col]).face_up) =>
            ~FoundationEligible(swept, Last(swept.tableaus[col]))

\* C15: no sequence of intents is fatal - no handler ever raises an
\* exception; a placement attempt whose selected source pile has become empty
\* in the meantime is an ordinary no-op.
C15_NeverRaises ==
  /\ ~crashed
  /\ \A pos \in Positions : ~AfterEnter(pos).crashed

\* the foundation pile on which card lies on top in gs
LandedOn(gs, card, s) == gs.foundations[s] # <<>> /\ Last(gs.foundations[s]) = card

\* C16: the hint agrees with the move rules - it reports a foundation
\* destination for the waste top exactly when waste->foundation would succeed
\* and for the top of a column exactly when tableau->foundation on that column
\* would succeed, and the reported index is the pile the card would land on.
C16_HintAgreesWithMoves ==
  /\ LET r == move_waste_to_foundation(state)
         tip == HintWasteFoundation(state)
     IN /\ (tip # <<>>) = r.ok
        /\ tip # <<>> => LandedOn(r.gs, Last(state.waste), tip[1][2])
  /\ \A col \in Cols :
       LET r == move_tableau_to_foundation(state, col)
           tip == HintTableauFoundation(state, col)
       IN /\ (tip # <<>>) = r.ok
          /\ tip # <<>> => LandedOn(r.gs, Last(state.tableaus[col]), tip[1][2])

\* C17: moves is incremented exactly once per committed player action - a
\* successful Draw (key D, or Enter on the stock) and a successful placement
\* raise moves by exactly 1 however many cards change pile as a result of the
\* intent; a failed Draw and a failed placement leave moves unchanged.
C17_OneCountPerIntent ==
  ~crashed =>
    /\ AfterD.state.moves = state.moves + (IF DrawSucceeds THEN 1 ELSE 0)
    /\ sel = NoSel =>
         AfterEnter(<<"stock", 0>>).state.moves
           = state.moves + (IF DrawSucceeds THEN 1 ELSE 0)
    /\ \A pos \in Positions :
         /\ PlacementSucceeds(pos) => AfterEnter(pos).state.moves = state.moves + 1
         /\ PlacementFails(pos) => AfterEnter(pos).state.moves = state.moves

\* the (rank, suit) pairs of the cards of a pile
Faces(pile) == {<<pile[i].value, pile[i].suit>> : i \in 1 .. Len(pile)}

\* C18: a draw with a non-empty stock moves exactly min(draw_count, |stock|)
\* cards from the tail of stock to the tail of waste, each turned face-up,
\* leaves the other stock and waste cards and all other piles as they were and
\* returns success; with stock and waste both empty it fails.
C18_DrawMovesMinCards ==
  \A dc \in {1, 3} :
    LET r == draw_from_stock(state, dc)
        n == Len(state.stock)
        w == Len(state.waste)
        k == IF dc <= n THEN dc ELSE n
    IN /\ state.stock # <<>> =>
            /\ r.ok
            /\ r.gs.stock = SubSeq(state.stock, 1, n - k)
            /\ Len(r.gs.waste) = w + k
            /\ SubSeq(r.gs.waste, 1, w) = state.waste
            /\ \A i \in (w + 1) .. (w + k) : r.gs.waste[i].face_up
            /\ Faces(SubSeq(r.gs.waste, w + 1, w + k)) = Faces(SubSeq(state.stock, n - k + 1, n))
            /\ r.gs.foundations = state.foundations
            /\ r.gs.tableaus = state.tableaus
       /\ (state.stock = <<>> /\ state.waste = <<>>) => ~r.ok

\* cards were drawn before, the waste is not empty and the stock holds fewer
\* cards than a draw of three asks for
C18_Witness ==
  /\ state.waste # <<>>
  /\ Len(state.stock) \in 1 .. 2
  /\ draw_from_stock(state, 3).ok
  /\ Len(draw_from_stock(state, 3).gs.waste) = Len(state.waste) + Len(state.stock)

\* the same card, whichever way up
SameCard(a, b) == a.value = b.value /\ a.suit = b.suit

\* C19 as stated: after a successful draw from a non-empty stock (draw_count
\* 1 or 3) the card that was the top of stock is the top of waste.
C19_StockTopBecomesWasteTop ==
  state.stock # <<>> =>
    LET r == draw_from_stock(state, settings.draw_count)
    IN r.ok /\ SameCard(Last(r.gs.waste), Last(state.stock))

\* C19 amended: a successful draw of k = min(draw_count, |stock|) cards puts
\* them on the waste in the order they are popped - the old stock top is the
\* bottom-most of the k new waste cards and the k-th card from the top of the
\* old stock is the new waste top; with k = 1 the old stock top is the new
\* waste top.
C19_DrawOrder ==
  \A dc \in {1, 3} :
    state.stock # <<>> =>
      LET r == draw_from_stock(state, dc)
          n == Len(state.stock)
          w == Len(state.waste)
          k == IF dc <= n THEN dc ELSE n
      IN /\ r.ok
         /\ \A i \in 1 .. k : SameCard(r.gs.waste[w + i], state.stock[n + 1 - i])
         /\ SameCard(Last(r.gs.waste), state.stock[n - k + 1])
         /\ k = 1 => SameCard(Last(r.gs.waste), Last(state.stock))

\* cards lie on the waste already, a draw of three takes three cards and a
\* draw of one takes one, and they end with different cards on top
C19_Witness ==
  /\ state.waste # <<>>
  /\ Len(state.stock) >= 3
  /\ ~SameCard(Last(draw_from_stock(state, 3).gs.waste), Last(draw_from_stock(state, 1).gs.waste))
  /\ SameCard(Last(draw_from_stock(state, 1).gs.waste), Last(state.stock))

\* draw_from_stock repeated until the stock is empty, nothing in between
RECURSIVE DrawAll(_, _)
DrawAll(gs, dc) ==
  IF gs.stock = <<>> THEN gs ELSE DrawAll(draw_from_stock(gs, dc).gs, dc)

AllFaceDown(pile) == \A i \in 1 .. Len(pile) : ~pile[i].face_up

\* C20: draw-then-recycle round trip - from a Table with empty waste and
\* non-empty stock, drawing (draw_count 1 or 3) until the stock is empty and
\* then once more leaves the waste empty and the stock with its size before
\* the first draw, all cards face-down, holding the same cards; and a draw
\* from an empty stock moves every waste card to the stock face-down.
C20_DrawRecycleRoundTrip ==
  \A dc \in {1, 3} :
    /\ (state.waste = <<>> /\ state.stock # <<>>) =>
         LET drawn == DrawAll(state, dc)
             r == draw_from_stock(drawn, dc)
         IN /\ drawn.stock = <<>>
            /\ Len(drawn.waste) = Len(state.stock)
            /\ r.ok
            /\ r.gs.waste = <<>>
            /\ Len(r.gs.stock) = Len(state.stock)
            /\ AllFaceDown(r.gs.stock)
            /\ Faces(r.gs.stock) = Faces(state.stock)
    /\ (state.stock = <<>> /\ state.waste # <<>>) =>
         LET r == draw_from_stock(state, dc)
         IN /\ r.ok
            /\ r.gs.waste = <<>>
            /\ Len(r.gs.stock) = Len(state.waste)
            /\ AllFaceDown(r.gs.stock)
            /\ Faces(r.gs.stock) = Faces(state.waste)

\* the stock was recycled after cards had left the waste: the waste is empty,
\* the stock is smaller than dealt and still needs two draws of three
C20_Witness ==
  /\ state.moves > 0
  /\ state.waste = <<>>
  /\ Len(state.stock) = (NumCards - DealtBefore(NumCols)) - 1
  /\ Len(draw_from_stock(state, 3).gs.stock) = Len(state.stock) - 3
  /\ draw_from_stock(DrawAll(state, 3), 3).gs.stock = state.stock

\* C21: auto-move idempotence - for every reachable Table a second call of
\* auto_move_safe directly after a first one moves no card, returns 0 and
\* leaves the Table as the first call left it.
C21_SweepIdempotent ==
  LET first == auto_move_safe(state)
      second == auto_move_safe(first.gs)
  IN /\ second.count = 0
     /\ second.gs = first.gs

\* a Table on which the first call needs more than one pass: its first pass
\* moves a card and so does its second
C21_Witness ==
  /\ AutoPass(state, 0).moved
  /\ AutoPass(AutoPass(state, 0).gs, 0).moved
  /\ auto_move_safe(state).count >= 2
  /\ auto_move_safe(auto_move_safe(state).gs).count = 0

\* C22: History is bounded and evicts oldest-first - in every reachable
\* state it holds at most UndoCap snapshots, and a push onto a full History
\* discards exactly the oldest entry, keeps the others in their order and
\* puts the new snapshot on top.
C22_HistoryBounded ==
  /\ Len(undo_stack) <= UndoCap
  /\ Len(undo_stack) = UndoCap =>
       LET pushed == push_undo(G).undo_stack
       IN /\ Len(pushed) = UndoCap
          /\ \A i \in 1 .. (UndoCap - 1) : pushed[i] = undo_stack[i + 1]
          /\ pushed[UndoCap] = state

\* a full History whose entries differ from each other and from the Table
\* that is about to be pushed
C22_Witness ==
  /\ Len(undo_stack) = UndoCap
  /\ undo_stack[1] # undo_stack[2]
  /\ Last(undo_stack) # state
  /\ push_undo(G).undo_stack # undo_stack
  /\ push_undo(G).undo_stack[1] = undo_stack[2]

\* a Table as dealt: nothing on waste or foundations, no move counted
FreshDeal(gs) ==
  /\ gs.moves = 0
  /\ ~gs.won
  /\ gs.waste = <<>>
  /\ \A s \in Suits : gs.foundations[s] = <<>>
  /\ Len(gs.stock) = NumCards - DealtBefore(NumCols)

\* C23: NewGame replaces the Table by a fresh deal (moves 0, won false),
\* empties History and resets the selection, so an Undo directly after it is
\* a no-op and cannot bring back a Table of the previous game; and Undo with
\* an empty History never changes the Table.
C23_NewGameClearsHistory ==
  ~crashed =>
    /\ \A deck \in new_deck :
         LET h == OnN(G, deck)
         IN /\ FreshDeal(h.state)
            /\ h.undo_stack = <<>>
            /\ h.sel = NoSel
            /\ OnU(h).state = h.state
            /\ OnU(h).undo_stack = <<>>
    /\ undo_stack = <<>> => (undo(G).state = state /\ OnU(G).state = state)

\* a game in progress: moves were made, snapshots are on the undo stack, a
\* source is selected, and the Table is not a fresh deal
C23_Witness ==
  /\ ~crashed
  /\ state.moves > 0
  /\ Len(undo_stack) = UndoCap
  /\ sel # NoSel
  /\ ~FreshDeal(state)
  /\ \A deck \in new_deck : OnN(G, deck).state # Last(undo_stack)

\* C24: deal layout - for every order of the deck deal_new_game yields a
\* Table in which column i has exactly i + 1 cards of which only the last is
\* face-up, the stock holds the remaining cards (24 of 52) all face-down,
\* waste and foundations are empty, the cards are pairwise distinct, and
\* moves = 0 and won = false.
C24_DealLayout ==
  /\ \A col \in Cols :
       /\ Len(state.tableaus[col]) = col + 1
       /\ \A i \in 1 .. (col + 1) : state.tableaus[col][i].face_up = (i = col + 1)
  /\ Len(state.stock) = NumCards - DealtBefore(NumCols)
  /\ AllFaceDown(state.stock)
  /\ state.waste = <<>>
  /\ \A s \in Suits : state.foundations[s] = <<>>
  /\ Len(AllCards(state)) = NumCards
  /\ \A v \in 1 .. NumRanks : \A s \in Suits : Occurrences(AllCards(state), v, s) = 1
  /\ state.moves = 0
  /\ ~state.won

\* a deal of a deck that is no cut of the sorted deck: the columns show two
\* cards of one suit and the stock holds two aces next to each other
C24_Witness ==
  /\ \A deck \in new_deck : state # deal_new_game(deck)
  /\ Last(state.tableaus[0]).suit = Last(state.tableaus[1]).suit
  /\ state.stock[1].value = 1 /\ state.stock[2].value = 1
  /\ DeckOf(state) # SortedDeck

AllFaceUp(pile) == \A i \in 1 .. Len(pile) : pile[i].face_up

\* the face-up cards of a column are the cards from some position to the top,
\* and the top card of a non-empty column is face-up
FaceUpSuffix(pile) ==
  /\ \A i \in 1 .. Len(pile) : \A j \in i .. Len(pile) : pile[i].face_up => pile[j].face_up
  /\ pile # <<>> => Last(pile).face_up

\* C25: orientation invariant - in every reachable state every stock card is
\* face-down, every waste and foundation card is face-up, and in every column
\* the face-up cards are a contiguous suffix that is non-empty when the column
\* is: no column is topped by a face-down card after an intent.
C25_Orientation ==
  /\ AllFaceDown(state.stock)
  /\ AllFaceUp(state.waste)
  /\ \A s \in Suits : AllFaceUp(state.foundations[s])
  /\ \A col \in Cols : FaceUpSuffix(state.tableaus[col])

\* the face-down card of a column was exposed and turned over, and stock,
\* waste and a foundation all hold cards
C25_Witness ==
  /\ \E col \in Cols : col >= 1 /\ Len(state.tableaus[col]) <= col /\ state.tableaus[col] # <<>>
                        /\ AllFaceUp(state.tableaus[col])
  /\ state.stock # <<>>
  /\ state.waste # <<>>
  /\ FoundationTotal(state) > 0

\* the while loop of auto_move_safe, started on gs, ends within n passes that
\* move a card (plus the last pass, which moves none)
RECURSIVE EndsWithin(_, _)
EndsWithin(gs, n) ==
  IF ~AutoPass(gs, 0).moved
  THEN TRUE
  ELSE n > 0 /\ EndsWithin(AutoPass(gs, 0).gs, n - 1)

\* C26: auto_move_safe terminates from every reachable Table - a pass that
\* moves a card strictly increases the number of foundation cards, the sweep
\* ends after at most NumCards moves, and what it returns is both the
\* increase of the number of foundation cards and the increase of moves.
C26_SweepTerminates ==
  LET p == AutoPass(state, 0)
      r == auto_move_safe(state)
  IN /\ p.moved => FoundationTotal(p.gs) > FoundationTotal(state)
     /\ p.moved = (p.count > 0)
     /\ EndsWithin(state, NumCards)
     /\ r.count <= NumCards
     /\ r.count = FoundationTotal(r.gs) - FoundationTotal(state)
     /\ r.count = r.gs.moves - state.moves

\* a sweep that takes a card from the waste and a card from a column and
\* needs a further pass after its first
C26_Witness ==
  LET r == auto_move_safe(state)
  IN /\ r.count >= 3
     /\ Len(r.gs.waste) < Len(state.waste)
     /\ \E col \in Cols : Len(r.gs.tableaus[col]) < Len(state.tableaus[col])
     /\ AutoPass(state, 0).count < r.count
     /\ FoundationTotal(state) > 0

====
